---- MODULE Spec2Model ----
(***************************************************************************)
(* SchemaValidator.validate                                                *)
(* packages/services/api/src/modules/schema/providers/schema-validator.ts  *)
(*                                                                         *)
(* One invocation of the async method validate, cut at its awaits, with    *)
(* the Orchestrator and the Inspector as fallible collaborators and the    *)
(* two builds of Promise.all as independently completing tasks.            *)
(***************************************************************************)
EXTENDS Integers, Sequences, FiniteSets, TLC

\* ------------------------------------------------------------------ bounds
\* longest `after` sequence handed to validate
MaxAfter == 2
\* longest error list Orchestrator.validate returns
MaxErrors == 2
\* longest change list Inspector.diff returns
MaxChanges == 2

\* ------------------------------------------------------- optional values
\* null / undefined is None, a present value v is Some(v)
None == <<>>
Some(v) == <<v>>
IsSome(o) == o # <<>>
Get(o) == o[1]

\* ---------------------------------------------------------------- texts
\* A raw schema text is a sequence of tokens; "x" is a token the GraphQL
\* grammar rejects, "a" and "b" each spell one definition.
Tokens == {"a", "b", "x"}

TokenCode(t) ==
  CASE t = "a" -> 1
    [] t = "b" -> 2
    [] OTHER -> 3

\* graphql parse: throws on a text with no definition or with a bad token
ParseThrows(text) ==
  \/ text = <<>>
  \/ \E i \in 1..Len(text) : text[i] = "x"

\* graphql parse of a text it accepts: one definition node per token
parse(text) ==
  [i \in 1..Len(text) |-> <<"def", text[i]>>]

\* graphql concatAST([d1, d2]): the definitions of d1 followed by those of d2
concatAST(d1, d2) == d1 \o d2

\* A SchemaObject: raw text, parsed document, and the other fields (source)
SchemaObject(src, text) ==
  [source |-> src, raw |-> text, document |-> parse(text)]

sA == SchemaObject("users", <<"a">>)
sB == SchemaObject("posts", <<"b">>)
\* a schema whose content differs from sA and whose hash collides with it
sC == SchemaObject("users", <<"b", "b">>)

RECURSIVE SumCodes(_)
SumCodes(text) ==
  IF text = <<>> THEN 0 ELSE TokenCode(Head(text)) + SumCodes(Tail(text))

\* shared/schema hashSchema: a fingerprint that is a function of the content
hashSchema(schema) == (Len(schema.raw) + SumCodes(schema.raw)) % 4

\* ------------------------------------------------------ errors, changes
NoPath == <<>>

SchemaError(msg, p) == [message |-> msg, path |-> p]

\* the object pushed at line 120: a message and no path property
PathlessError(msg) == [message |-> msg, path |-> NoPath]

e1 == SchemaError(<<"Unknown type">>, <<"User", "id">>)
e2 == SchemaError(<<"Duplicate field">>, NoPath)

SchemaChange(crit, msg, p) == [criticality |-> crit, message |-> msg, path |-> p]

cB1 == SchemaChange("Breaking", <<"Field removed">>, <<"Query", "me">>)
cB2 == SchemaChange("Breaking", <<"Type removed">>, NoPath)
cD == SchemaChange("Dangerous", <<"Enum value added">>, <<"Role">>)
cS == SchemaChange("Safe", <<"Field added">>, <<"Query", "you">>)

RECURSIVE SeqsUpTo(_, _)
SeqsUpTo(S, n) ==
  IF n = 0 THEN {<<>>}
  ELSE LET shorter == SeqsUpTo(S, n - 1)
       IN shorter \cup {Append(s, x) : s \in shorter, x \in S}

\* --------------------------------------------------------------- inputs
\* the arguments of one call of validate; they never change during the run
VARIABLES isInitial, incoming, existing, before, after, baseSchema, experimental_acceptBreakingChanges, project

\* what Orchestrator.validate answers for the candidate set of this run
\* (a failure, or its ordered list of composition errors)
VARIABLE composition

\* ------------------------------------------------------------ run state
\* pc: where the async method stands; errors, changes: its locals;
\* existingSchema, incomingSchema: the destructured result of Promise.all;
\* buildBefore, buildAfter: the two promises of Orchestrator.build;
\* diffTask: the promise of Inspector.diff;
\* allRejection: the reason Promise.all rejected with, if it has;
\* calls: every collaborator call issued, in order; result: the returned
\* ValidationResult; fault: the reason the returned promise rejected with;
\* orchestratorErrors: the array Orchestrator.validate resolved with, as the
\* Orchestrator sees it (line 78 binds `errors` to that very array, so every
\* errors.push shows in it)
VARIABLES orchestratorErrors, pc, errors, changes, existingSchema, incomingSchema, buildBefore, buildAfter, diffTask, allRejection, calls, result, fault

inputs == <<isInitial, incoming, existing, before, after, baseSchema, experimental_acceptBreakingChanges, project, composition>>

vars == <<isInitial, incoming, existing, before, after, baseSchema, experimental_acceptBreakingChanges, project, composition, orchestratorErrors, pc, errors, changes, existingSchema, incomingSchema, buildBefore, buildAfter, diffTask, allRejection, calls, result, fault>>

selector == [organization |-> "org", project |-> "proj", target |-> "target"]

\* the candidate sets: the first n of sA, sB, sA, sB, ...
AfterOf(n) == [i \in 1..n |-> IF i % 2 = 1 THEN sA ELSE sB]

BaseSchemas == {None, Some(<<>>), Some(<<"b", "a">>), Some(<<"x">>)}

Projects == {[externalComposition |-> [enabled |-> en, endpoint |-> "https://compose"]] : en \in BOOLEAN}

CompositionErrors == {e1, e2}

Compositions ==
  {[throws |-> TRUE, errors |-> <<>>]}
    \cup {[throws |-> FALSE, errors |-> es] : es \in SeqsUpTo(CompositionErrors, MaxErrors)}

Changes == {cB1, cB2, cD, cS}

\* a promise of a collaborator
IdleTask == [status |-> "idle", value |-> None, reason |-> <<>>]
PendingTask == [status |-> "pending", value |-> None, reason |-> <<>>]
ResolvedTask(v) == [status |-> "resolved", value |-> v, reason |-> <<>>]
RejectedTask(r) == [status |-> "rejected", value |-> None, reason |-> r]

\* what Orchestrator.build may resolve with: no schema, a built schema
\* buildSchema accepts, a built schema buildSchema rejects
BuildValues(which) ==
  {None, Some([of |-> which, usable |-> TRUE]), Some([of |-> which, usable |-> FALSE])}

BuildFailure(which) == <<"build failed", which>>

DiffFailure == <<"diff failed">>

ValidateFailure == <<"validate failed">>

Init ==
  /\ isInitial \in BOOLEAN
  /\ incoming = sA
  /\ existing \in {None, Some(sA), Some(sB), Some(sC)}
  /\ before \in {<<>>, <<sA>>}
  /\ after \in {AfterOf(n) : n \in 0..MaxAfter}
  /\ baseSchema \in BaseSchemas
  /\ experimental_acceptBreakingChanges \in BOOLEAN
  /\ project \in Projects
  /\ composition \in Compositions
  /\ orchestratorErrors = None
  /\ pc = "start"
  /\ errors = <<>>
  /\ changes = <<>>
  /\ existingSchema = None
  /\ incomingSchema = None
  /\ buildBefore = IdleTask
  /\ buildAfter = IdleTask
  /\ diffTask = IdleTask
  /\ allRejection = None
  /\ calls = <<>>
  /\ result = None
  /\ fault = None

\* ------------------------------------------------- the code of validate
\* line 53: `baseSchema ? ... : after` (null and '' are falsy)
Truthy(base) == IsSome(base) /\ Get(base) # <<>>

\* lines 56-60: the element that replaces after[0]
InjectBase(schema, base) ==
  [schema EXCEPT !.raw = base \o @, !.document = concatAST(parse(base), @)]

\* AfterWithBase without the index test: the base is injected everywhere
AfterWithBaseEveryElement(base, aft) ==
  IF Truthy(base)
  THEN [i \in 1..Len(aft) |-> InjectBase(aft[i], Get(base))]
  ELSE aft

\* lines 53-65: afterWithBase, when parse accepts the base schema
AfterWithBase(base, aft) ==
  IF Truthy(base)
  THEN [i \in 1..Len(aft) |-> IF i = 1 THEN InjectBase(aft[i], Get(base)) ELSE aft[i]]
  ELSE aft

\* lines 54-59: the map callback runs parse for index 0, and only if there
\* is an index 0
InjectionThrows(base, aft) ==
  Truthy(base) /\ Len(aft) >= 1 /\ ParseThrows(Get(base))

SyntaxError == <<"Syntax Error">>

\* line 67
areIdentical(ex, inc) ==
  IsSome(ex) /\ hashSchema(Get(ex)) = hashSchema(inc)

\* lines 70-75
IdenticalResult ==
  [valid |-> TRUE, isComposable |-> TRUE, errors |-> <<>>, changes |-> <<>>]

\* ValidateConfig without the test of `enabled`
ValidateConfigUnconditional(proj) == Some(proj.externalComposition)

\* line 80: the second argument of orchestrator.validate
ValidateConfig(proj) ==
  IF proj.externalComposition.enabled THEN Some(proj.externalComposition) ELSE None

\* lines 96-97: the second argument of orchestrator.build: the config
\* itself, whether or not it is enabled
BuildConfig(proj) == Some(proj.externalComposition)

\* collaborator calls, as recorded in `calls`
ValidateCall(schemas, config) == [op |-> "validate", args |-> <<schemas, config>>]
BuildCall(schemas, config) == [op |-> "build", args |-> <<schemas, config>>]
DiffCall(l, r, sel) == [op |-> "diff", args |-> <<l, r, sel>>]

\* InitialResult with the verdict of the identity short-circuit copied in
InitialResultAlwaysValid(errs) ==
  [valid |-> TRUE, isComposable |-> TRUE, errors |-> errs, changes |-> <<>>]

\* lines 84-89
InitialResult(errs) ==
  [valid |-> Len(errs) = 0, isComposable |-> Len(errs) = 0, errors |-> errs, changes |-> <<>>]

\* shared/schema buildSchema: fails on an absent or unparsable built schema
buildSchemaThrows(built) ==
  IF built = None THEN TRUE ELSE ~Get(built).usable

buildSchema(built) == [schema |-> Get(built).of]

ConversionFailure(built) ==
  IF built = None THEN <<"Cannot read properties of null">> ELSE <<"Cannot build schema", Get(built).of>>

\* line 100: the arguments are converted left to right
ConversionThrows(ex, inc) ==
  IF buildSchemaThrows(ex) THEN TRUE ELSE buildSchemaThrows(inc)

ConversionReason(ex, inc) ==
  IF buildSchemaThrows(ex) THEN ConversionFailure(ex) ELSE ConversionFailure(inc)

IsBreaking(change) == change.criticality = "Breaking"

\* line 102
hasBreakingChanges(chs) == \E i \in 1..Len(chs) : IsBreaking(chs[i])

\* lines 110-113: the error pushed for one breaking change
BreakingError(change) ==
  SchemaError(<<"Breaking Change: ">> \o change.message, change.path)

\* BreakingErrors with the test `criticality !== 'Safe'`
BreakingErrorsNotSafe(chs) ==
  LET risky == SelectSeq(chs, LAMBDA c : c.criticality # "Safe")
  IN [i \in 1..Len(risky) |-> BreakingError(risky[i])]

\* lines 108-115: what the forEach pushes, in order
BreakingErrors(chs) ==
  LET breaking == SelectSeq(chs, IsBreaking)
  IN [i \in 1..Len(breaking) |-> BreakingError(breaking[i])]

\* ApplyBreakingPolicy without the test of the accept flag
ApplyBreakingPolicyNoWaiver(errs, chs, accept) ==
  IF hasBreakingChanges(chs) THEN errs \o BreakingErrors(chs) ELSE errs

\* lines 102-117: errors after the breaking-change policy
ApplyBreakingPolicy(errs, chs, accept) ==
  IF hasBreakingChanges(chs)
  THEN IF accept THEN errs ELSE errs \o BreakingErrors(chs)
  ELSE errs

\* CatchFailure that starts a new list instead of pushing
CatchFailureOnly(errs, reason) ==
  <<PathlessError(<<"Failed to compare schemas: ">> \o reason)>>

\* lines 119-123: errors after the catch block
CatchFailure(errs, reason) ==
  Append(errs, PathlessError(<<"Failed to compare schemas: ">> \o reason))

\* Finalize with isComposable taken from the composition errors alone
FinalizeComposableByComposition(errs, chs) ==
  [valid |-> ~(Len(errs) > 0), isComposable |-> Len(composition.errors) = 0, errors |-> errs, changes |-> chs]

\* Finalize that reports only the breaking changes
FinalizeBreakingOnly(errs, chs) ==
  [valid |-> ~(Len(errs) > 0), isComposable |-> ~(Len(errs) > 0), errors |-> errs, changes |-> SelectSeq(chs, IsBreaking)]

\* lines 125-133
Finalize(errs, chs) ==
  [valid |-> ~(Len(errs) > 0), isComposable |-> ~(Len(errs) > 0), errors |-> errs, changes |-> chs]

\* -------------------------------------------------------------- actions
\* `return r` of the async method
Return(r) ==
  /\ result' = Some(r)
  /\ pc' = "done"

\* an exception that leaves the async method: its promise rejects
Throw(reason) ==
  /\ fault' = Some(reason)
  /\ pc' = "thrown"

\* lines 52-59: parse(baseSchema) throws inside after.map
InjectBaseThrows ==
  /\ pc = "start"
  /\ InjectionThrows(baseSchema, after)
  /\ Throw(SyntaxError)
  /\ UNCHANGED <<inputs, errors, orchestratorErrors, changes, existingSchema, incomingSchema, buildBefore, buildAfter, diffTask, allRejection, calls, result>>

\* lines 52-76: the identity short-circuit
ReturnIdentical ==
  /\ pc = "start"
  /\ ~InjectionThrows(baseSchema, after)
  /\ areIdentical(existing, incoming)
  /\ Return(IdenticalResult)
  /\ UNCHANGED <<inputs, errors, orchestratorErrors, changes, existingSchema, incomingSchema, buildBefore, buildAfter, diffTask, allRejection, calls, fault>>

\* lines 52-81: orchestrator.validate is called and awaited
CallValidate ==
  /\ pc = "start"
  /\ ~InjectionThrows(baseSchema, after)
  /\ ~areIdentical(existing, incoming)
  /\ calls' = Append(calls, ValidateCall(AfterWithBase(baseSchema, after), ValidateConfig(project)))
  /\ pc' = "await_validate"
  /\ UNCHANGED <<inputs, errors, orchestratorErrors, changes, existingSchema, incomingSchema, buildBefore, buildAfter, diffTask, allRejection, result, fault>>

\* ValidateRejects that calls orchestrator.validate again before giving up
ValidateRejectsRetriesOnce ==
  /\ pc = "await_validate"
  /\ composition.throws
  /\ IF Len(calls) < 2
     THEN /\ calls' = Append(calls, calls[1])
          /\ UNCHANGED <<pc, fault>>
     ELSE /\ Throw(ValidateFailure)
          /\ UNCHANGED calls
  /\ UNCHANGED <<inputs, errors, orchestratorErrors, changes, existingSchema, incomingSchema, buildBefore, buildAfter, diffTask, allRejection, result>>

\* line 78: the awaited promise rejects; nothing catches it
ValidateRejects ==
  /\ pc = "await_validate"
  /\ composition.throws
  /\ Throw(ValidateFailure)
  /\ UNCHANGED <<inputs, errors, orchestratorErrors, changes, existingSchema, incomingSchema, buildBefore, buildAfter, diffTask, allRejection, calls, result>>

\* lines 78-90: the initial-schema exit
ValidateResolvesInitial ==
  /\ pc = "await_validate"
  /\ ~composition.throws
  /\ isInitial
  /\ errors' = composition.errors
  /\ orchestratorErrors' = Some(errors')
  /\ Return(InitialResult(errors'))
  /\ UNCHANGED <<inputs, changes, existingSchema, incomingSchema, buildBefore, buildAfter, diffTask, allRejection, calls, fault>>

\* lines 78-98: both builds are issued and Promise.all is awaited
ValidateResolvesBuilds ==
  /\ pc = "await_validate"
  /\ ~composition.throws
  /\ ~isInitial
  /\ errors' = composition.errors
  /\ orchestratorErrors' = Some(errors')
  /\ calls' = calls \o <<BuildCall(before, BuildConfig(project)), BuildCall(after, BuildConfig(project))>>
  /\ buildBefore' = PendingTask
  /\ buildAfter' = PendingTask
  /\ pc' = "await_builds"
  /\ UNCHANGED <<inputs, changes, existingSchema, incomingSchema, diffTask, allRejection, result, fault>>

\* Promise.all rejects with the reason of the first promise that rejects
FirstRejection(reason) ==
  IF allRejection = None THEN Some(reason) ELSE allRejection

\* line 96: the promise of orchestrator.build(before, ...) resolves
BuildBeforeResolves ==
  /\ buildBefore.status = "pending"
  /\ \E v \in BuildValues("before") : buildBefore' = ResolvedTask(v)
  /\ UNCHANGED <<inputs, pc, errors, orchestratorErrors, changes, existingSchema, incomingSchema, buildAfter, diffTask, allRejection, calls, result, fault>>

\* line 96: the promise of orchestrator.build(before, ...) rejects
BuildBeforeRejects ==
  /\ buildBefore.status = "pending"
  /\ buildBefore' = RejectedTask(BuildFailure("before"))
  /\ allRejection' = FirstRejection(BuildFailure("before"))
  /\ UNCHANGED <<inputs, pc, errors, orchestratorErrors, changes, existingSchema, incomingSchema, buildAfter, diffTask, calls, result, fault>>

\* line 97: the promise of orchestrator.build(after, ...) resolves
BuildAfterResolves ==
  /\ buildAfter.status = "pending"
  /\ \E v \in BuildValues("after") : buildAfter' = ResolvedTask(v)
  /\ UNCHANGED <<inputs, pc, errors, orchestratorErrors, changes, existingSchema, incomingSchema, buildBefore, diffTask, allRejection, calls, result, fault>>

\* line 97: the promise of orchestrator.build(after, ...) rejects
BuildAfterRejects ==
  /\ buildAfter.status = "pending"
  /\ buildAfter' = RejectedTask(BuildFailure("after"))
  /\ allRejection' = FirstRejection(BuildFailure("after"))
  /\ UNCHANGED <<inputs, pc, errors, orchestratorErrors, changes, existingSchema, incomingSchema, buildBefore, diffTask, calls, result, fault>>

\* Promise.all resolves once both promises have resolved
AllResolved ==
  buildBefore.status = "resolved" /\ buildAfter.status = "resolved"

\* BuildsResolvedNoBefore without the test of line 99: buildSchema runs on
\* the absent schema and the catch block records its failure
BuildsResolvedNoBeforeConverts ==
  /\ pc = "await_builds"
  /\ AllResolved
  /\ ~IsSome(buildBefore.value)
  /\ existingSchema' = buildBefore.value
  /\ incomingSchema' = buildAfter.value
  /\ errors' = CatchFailure(errors, ConversionFailure(buildBefore.value))
  /\ orchestratorErrors' = Some(errors')
  /\ Return(Finalize(errors', changes))
  /\ UNCHANGED <<inputs, changes, buildBefore, buildAfter, diffTask, allRejection, calls, fault>>

\* lines 95-99, 125-133: the before build gave no schema, diffing is skipped
BuildsResolvedNoBefore ==
  /\ pc = "await_builds"
  /\ AllResolved
  /\ ~IsSome(buildBefore.value)
  /\ existingSchema' = buildBefore.value
  /\ incomingSchema' = buildAfter.value
  /\ Return(Finalize(errors, changes))
  /\ UNCHANGED <<inputs, errors, orchestratorErrors, changes, buildBefore, buildAfter, diffTask, allRejection, calls, fault>>

\* lines 95-100, 119-133: buildSchema throws, the catch block records it
BuildsResolvedConversionThrows ==
  /\ pc = "await_builds"
  /\ AllResolved
  /\ IsSome(buildBefore.value)
  /\ ConversionThrows(buildBefore.value, buildAfter.value)
  /\ existingSchema' = buildBefore.value
  /\ incomingSchema' = buildAfter.value
  /\ errors' = CatchFailure(errors, ConversionReason(buildBefore.value, buildAfter.value))
  /\ orchestratorErrors' = Some(errors')
  /\ Return(Finalize(errors', changes))
  /\ UNCHANGED <<inputs, changes, buildBefore, buildAfter, diffTask, allRejection, calls, fault>>

\* lines 95-100: inspector.diff is called and awaited
BuildsResolvedCallDiff ==
  /\ pc = "await_builds"
  /\ AllResolved
  /\ IsSome(buildBefore.value)
  /\ ~ConversionThrows(buildBefore.value, buildAfter.value)
  /\ existingSchema' = buildBefore.value
  /\ incomingSchema' = buildAfter.value
  /\ calls' = Append(calls, DiffCall(buildSchema(buildBefore.value), buildSchema(buildAfter.value), selector))
  /\ diffTask' = PendingTask
  /\ pc' = "await_diff"
  /\ UNCHANGED <<inputs, errors, orchestratorErrors, changes, buildBefore, buildAfter, allRejection, result, fault>>

\* BuildsRejected with an empty catch block
BuildsRejectedSwallowed ==
  /\ pc = "await_builds"
  /\ IsSome(allRejection)
  /\ Return(Finalize(errors, changes))
  /\ UNCHANGED <<inputs, errors, orchestratorErrors, changes, existingSchema, incomingSchema, buildBefore, buildAfter, diffTask, allRejection, calls, fault>>

\* lines 95, 119-133: Promise.all rejected, the catch block records it
BuildsRejected ==
  /\ pc = "await_builds"
  /\ IsSome(allRejection)
  /\ errors' = CatchFailure(errors, Get(allRejection))
  /\ orchestratorErrors' = Some(errors')
  /\ Return(Finalize(errors', changes))
  /\ UNCHANGED <<inputs, changes, existingSchema, incomingSchema, buildBefore, buildAfter, diffTask, allRejection, calls, fault>>

\* lines 100-117, 125-133: the diff returns, the breaking-change policy runs
DiffResolves ==
  /\ pc = "await_diff"
  /\ \E chs \in SeqsUpTo(Changes, MaxChanges) :
       /\ diffTask' = ResolvedTask(chs)
       /\ changes' = chs
       /\ errors' = ApplyBreakingPolicy(errors, chs, experimental_acceptBreakingChanges)
       /\ orchestratorErrors' = Some(errors')
       /\ Return(Finalize(errors', changes'))
  /\ UNCHANGED <<inputs, existingSchema, incomingSchema, buildBefore, buildAfter, allRejection, calls, fault>>

\* DiffRejects that calls inspector.diff a second time before giving up
DiffRejectsRetriesOnce ==
  /\ pc = "await_diff"
  /\ IF Len(calls) < 5
     THEN /\ calls' = Append(calls, calls[Len(calls)])
          /\ UNCHANGED <<diffTask, errors, orchestratorErrors, pc, result>>
     ELSE /\ diffTask' = RejectedTask(DiffFailure)
          /\ errors' = CatchFailure(errors, DiffFailure)
          /\ orchestratorErrors' = Some(errors')
          /\ Return(Finalize(errors', changes))
          /\ UNCHANGED calls
  /\ UNCHANGED <<inputs, changes, existingSchema, incomingSchema, buildBefore, buildAfter, allRejection, fault>>

\* lines 100, 119-133: the diff rejects, the catch block records it
DiffRejects ==
  /\ pc = "await_diff"
  /\ diffTask' = RejectedTask(DiffFailure)
  /\ errors' = CatchFailure(errors, DiffFailure)
  /\ orchestratorErrors' = Some(errors')
  /\ Return(Finalize(errors', changes))
  /\ UNCHANGED <<inputs, changes, existingSchema, incomingSchema, buildBefore, buildAfter, allRejection, calls, fault>>

Next ==
  \/ InjectBaseThrows
  \/ ReturnIdentical
  \/ CallValidate
  \/ ValidateRejects
  \/ ValidateResolvesInitial
  \/ ValidateResolvesBuilds
  \/ BuildBeforeResolves
  \/ BuildBeforeRejects
  \/ BuildAfterResolves
  \/ BuildAfterRejects
  \/ BuildsResolvedNoBefore
  \/ BuildsResolvedConversionThrows
  \/ BuildsResolvedCallDiff
  \/ BuildsRejected
  \/ DiffResolves
  \/ DiffRejects

Spec == Init /\ [][Next]_vars

\* a collaborator call that was issued completes
CollaboratorCompletes ==
  \/ ValidateRejects
  \/ ValidateResolvesInitial
  \/ ValidateResolvesBuilds
  \/ BuildBeforeResolves
  \/ BuildBeforeRejects
  \/ BuildAfterResolves
  \/ BuildAfterRejects
  \/ DiffResolves
  \/ DiffRejects

\* the event loop runs a continuation of the method that is ready
RunContinues ==
  \/ InjectBaseThrows
  \/ ReturnIdentical
  \/ CallValidate
  \/ BuildsResolvedNoBefore
  \/ BuildsResolvedConversionThrows
  \/ BuildsResolvedCallDiff
  \/ BuildsRejected

\* the runs whose inputs select each branch of the method once: the values
\* the control flow does not read are fixed
FairInit ==
  /\ Init
  /\ before = <<sA>>
  /\ after = AfterOf(1)
  /\ existing \in {None, Some(sA)}
  /\ baseSchema \in {None, Some(<<"x">>)}
  /\ project.externalComposition.enabled
  /\ composition.errors \in {<<>>, <<e1>>}

\* every collaborator call issued eventually completes, and a ready
\* continuation eventually runs
FairSpec ==
  FairInit /\ [][Next]_vars /\ WF_vars(CollaboratorCompletes) /\ WF_vars(RunContinues)

\* ---------------------------------------------------------- properties
Finished == pc \in {"done", "thrown"}

Identical == areIdentical(existing, incoming)

Called(op) == \E i \in 1..Len(calls) : calls[i].op = op

\* C1: every returned ValidationResult has valid = (errors is empty) and
\* isComposable = valid, on the identity, the initial and the final return.
C1_ResultConsistent ==
  IsSome(result) =>
    LET r == Get(result)
    IN /\ r.valid = (Len(r.errors) = 0)
       /\ r.isComposable = r.valid

\* C1 witness: a final return that rejects breaking changes
C1_Witness ==
  /\ pc = "done"
  /\ diffTask.status = "resolved"
  /\ ~Get(result).valid
  /\ Len(Get(result).errors) > Len(composition.errors)

\* C2: when existing is present and the hashes are equal, the run ends by
\* returning exactly {valid: true, isComposable: true, errors: [],
\* changes: []}, whatever the other inputs are.
C2_IdenticalAlwaysReturnsValid ==
  (Finished /\ Identical) => result = Some(IdenticalResult)

\* C3: when the identity short-circuit applies no collaborator is invoked,
\* and when it does not apply the run invokes Orchestrator.validate.
C3_ValidateInvokedUnlessIdentical ==
  /\ Identical => calls = <<>>
  /\ (Finished /\ ~Identical) => Called("validate")

\* C4 as stated: with isInitial, every returned result has no changes,
\* valid = (the composition errors of the after set are empty) and
\* errors = those composition errors; no build and no diff is invoked.
C4_InitialAsStated ==
  isInitial =>
    /\ ~Called("build") /\ ~Called("diff")
    /\ IsSome(result) =>
         LET r == Get(result)
         IN /\ r.changes = <<>>
            /\ r.valid = (composition.errors = <<>>)
            /\ r.errors = composition.errors

\* C4 amended: with isInitial, no build and no diff is invoked and every
\* returned result has no changes; unless the identity short-circuit
\* applies, valid = (the composition errors are empty) and errors is
\* exactly the composition errors.
C4_InitialExit ==
  isInitial =>
    /\ ~Called("build") /\ ~Called("diff")
    /\ IsSome(result) =>
         LET r == Get(result)
         IN /\ r.changes = <<>>
            /\ ~Identical =>
                 /\ r.valid = (composition.errors = <<>>)
                 /\ r.errors = composition.errors

\* C4 witness: an initial run that returns composition errors
C4_Witness ==
  /\ isInitial
  /\ ~Identical
  /\ IsSome(result)
  /\ Len(composition.errors) = 2
  /\ ~Get(result).valid

RECURSIVE ExpectedBreakingErrors(_)
ExpectedBreakingErrors(chs) ==
  IF chs = <<>> THEN <<>>
  ELSE LET c == Head(chs)
           own == IF c.criticality = "Breaking"
                  THEN <<[message |-> <<"Breaking Change: ">> \o c.message, path |-> c.path]>>
                  ELSE <<>>
       IN own \o ExpectedBreakingErrors(Tail(chs))

\* C5: after a diff that succeeded with acceptBreakingChanges false, errors
\* is the composition errors followed by one 'Breaking Change: ' error per
\* Breaking change, in the order of changes, with the change's path;
\* Dangerous and Safe changes add none; a Breaking change makes valid false.
C5_BreakingChangesRejected ==
  (pc = "done" /\ diffTask.status = "resolved" /\ ~experimental_acceptBreakingChanges) =>
    LET r == Get(result)
    IN /\ r.errors = composition.errors \o ExpectedBreakingErrors(r.changes)
       /\ (\E i \in 1..Len(r.changes) : r.changes[i].criticality = "Breaking") => ~r.valid

\* C5 witness: a Dangerous change before a Breaking one, after a
\* composition error
C5_Witness ==
  /\ pc = "done"
  /\ diffTask.status = "resolved"
  /\ ~experimental_acceptBreakingChanges
  /\ composition.errors = <<e2>>
  /\ Get(result).changes = <<cD, cB1>>
  /\ Len(Get(result).errors) = 2

\* C6: after a diff that succeeded with acceptBreakingChanges true, errors
\* is exactly the composition errors, valid iff there are none, and changes
\* holds every Breaking entry the Inspector reported.
C6_BreakingChangesWaived ==
  (pc = "done" /\ diffTask.status = "resolved" /\ experimental_acceptBreakingChanges) =>
    LET r == Get(result)
    IN /\ r.errors = composition.errors
       /\ r.valid = (composition.errors = <<>>)
       /\ SelectSeq(r.changes, IsBreaking) = SelectSeq(diffTask.value, IsBreaking)

\* C6 witness: two Breaking changes waived, no composition error
C6_Witness ==
  /\ pc = "done"
  /\ diffTask.status = "resolved"
  /\ experimental_acceptBreakingChanges
  /\ diffTask.value = <<cB2, cB1>>
  /\ Get(result).valid

\* the failures a run has met in its diff stage
DiffStageFailures ==
  (IF buildBefore.status = "rejected" THEN {BuildFailure("before")} ELSE {})
    \cup (IF buildAfter.status = "rejected" THEN {BuildFailure("after")} ELSE {})
    \cup (IF AllResolved /\ IsSome(buildBefore.value)
          THEN {ConversionFailure(b) : b \in {x \in {buildBefore.value, buildAfter.value} : buildSchemaThrows(x)}}
          ELSE {})
    \cup (IF diffTask.status = "rejected" THEN {DiffFailure} ELSE {})

\* C7: when a build, the conversion of a built schema or the diff fails,
\* validate still returns: errors is the composition errors followed by
\* exactly one error 'Failed to compare schemas: ' + reason, changes is
\* empty and valid is false, whatever acceptBreakingChanges is.
C7_DiffStageFailureRecorded ==
  (Finished /\ DiffStageFailures # {}) =>
    /\ pc = "done"
    /\ LET r == Get(result)
       IN /\ \E reason \in DiffStageFailures :
               r.errors = Append(composition.errors, [message |-> <<"Failed to compare schemas: ">> \o reason, path |-> NoPath])
          /\ r.changes = <<>>
          /\ ~r.valid

\* C7 witness: the after build fails after a composition error, with the
\* waiver on
C7_Witness ==
  /\ pc = "done"
  /\ buildAfter.status = "rejected"
  /\ buildBefore.status = "resolved"
  /\ experimental_acceptBreakingChanges
  /\ composition.errors = <<e1>>
  /\ Len(Get(result).errors) = 2

\* C8: with well-formed inputs no collaborator failure reaches the caller:
\* the run never ends by rejecting.
C8_NoFailurePropagates ==
  ~InjectionThrows(baseSchema, after) => pc # "thrown"

\* C9: the sequence passed to Orchestrator.validate is, with a base schema,
\* as long as after, has the raw text baseSchema + after[0].raw at index 0
\* and the elements of after at every other index; without one (null or
\* empty) it is after.
C9_BaseInjectedIntoFirstOnly ==
  \A i \in 1..Len(calls) :
    calls[i].op = "validate" =>
      LET passed == calls[i].args[1]
      IN IF IsSome(baseSchema) /\ baseSchema # Some(<<>>)
         THEN /\ Len(passed) = Len(after)
              /\ Len(passed) >= 1 => passed[1].raw = Get(baseSchema) \o after[1].raw
              /\ \A k \in 2..Len(passed) : passed[k] = after[k]
         ELSE passed = after

\* C9 witness: a base schema and two subschemas reach Orchestrator.validate
C9_Witness ==
  /\ Called("validate")
  /\ baseSchema = Some(<<"b", "a">>)
  /\ Len(after) = 2

\* C10: the after set handed to Orchestrator.build is the base-merged set
\* that was handed to Orchestrator.validate.
C10_BuildGetsMergedSet ==
  (Len(calls) >= 3 /\ calls[1].op = "validate" /\ calls[3].op = "build") =>
    calls[3].args[1] = calls[1].args[1]

\* C11: Orchestrator.validate receives the project's external-composition
\* config exactly when externalComposition.enabled is true, and null (never
\* the config) when it is disabled.
C11_ValidateConfigOnlyIfEnabled ==
  \A i \in 1..Len(calls) :
    calls[i].op = "validate" =>
      IF project.externalComposition.enabled
      THEN calls[i].args[2] = <<project.externalComposition>>
      ELSE calls[i].args[2] = <<>>

\* C11 witness: Orchestrator.validate was called with external composition
\* disabled
C11_Witness ==
  /\ Called("validate")
  /\ ~project.externalComposition.enabled

BuildsIssued == buildBefore.status # "idle" /\ buildAfter.status # "idle"

BuildOutstanding == buildBefore.status = "pending" \/ buildAfter.status = "pending"

\* C12: both builds are issued together, and the run does not diff, record
\* a failure or return while either build is still outstanding, also when
\* one build fails.
C12_WaitsForBothBuilds ==
  /\ (buildBefore.status = "idle") = (buildAfter.status = "idle")
  /\ (BuildsIssued /\ pc # "await_builds") => ~BuildOutstanding

HasError(r, msg) == \E i \in 1..Len(r.errors) : r.errors[i].message = msg

\* C13 as stated: each build that fails is surfaced in the errors of the
\* result through the diff-failure path, for the before build, the after
\* build, and both.
C13_EveryBuildFailureSurfaced ==
  pc = "done" =>
    /\ buildBefore.status = "rejected" =>
         HasError(Get(result), <<"Failed to compare schemas: ">> \o BuildFailure("before"))
    /\ buildAfter.status = "rejected" =>
         HasError(Get(result), <<"Failed to compare schemas: ">> \o BuildFailure("after"))

RejectedBuilds ==
  {w \in {"before", "after"} : (IF w = "before" THEN buildBefore ELSE buildAfter).status = "rejected"}

\* C13 amended: when a build fails, the result carries a diff-failure error
\* with the reason of a build that failed (the first to reject), in every
\* completion order and also when the before build yields no schema; when
\* both builds fail, only one of the two failures is recorded.
C13_BuildFailureSurfaced ==
  (Finished /\ RejectedBuilds # {}) =>
    /\ pc = "done"
    /\ \E w \in RejectedBuilds :
         HasError(Get(result), <<"Failed to compare schemas: ">> \o BuildFailure(w))
    /\ Len(Get(result).errors) = Len(composition.errors) + 1

\* C13 witness: the after build fails first, then the before build fails
C13_Witness ==
  /\ pc = "done"
  /\ RejectedBuilds = {"before", "after"}
  /\ allRejection = Some(BuildFailure("after"))
  /\ HasError(Get(result), <<"Failed to compare schemas: ">> \o BuildFailure("after"))

\* C14: the returned changes is the list Inspector.diff returned, same
\* elements in the same order, in a non-initial, non-identical run whose
\* before build returned a schema and whose diff completed; in every other
\* run it is empty.
C14_ChangesAreTheDiff ==
  /\ diffTask.status = "resolved" =>
       /\ ~isInitial /\ ~Identical
       /\ buildBefore.status = "resolved" /\ IsSome(buildBefore.value)
  /\ IsSome(result) =>
       Get(result).changes = IF diffTask.status = "resolved" THEN diffTask.value ELSE <<>>

\* C14 witness: a Safe and a Breaking change returned while the Breaking
\* one is rejected
C14_Witness ==
  /\ pc = "done"
  /\ ~experimental_acceptBreakingChanges
  /\ diffTask.value = <<cS, cB1>>
  /\ Get(result).changes = <<cS, cB1>>
  /\ ~Get(result).valid

NoBeforeSchema == buildBefore.status = "resolved" /\ ~IsSome(buildBefore.value)

\* C15 as stated: when the before build yields no schema, Inspector.diff is
\* not invoked, changes is empty and errors is exactly the list
\* Orchestrator.validate returned, whatever the after build does.
C15_NoBeforeAsStated ==
  (pc = "done" /\ NoBeforeSchema) =>
    /\ ~Called("diff")
    /\ Get(result).changes = <<>>
    /\ Get(result).errors = composition.errors

\* C15 amended: when the before build yields no schema, Inspector.diff is
\* not invoked and changes is empty; errors is exactly the list
\* Orchestrator.validate returned provided the after build resolves, with
\* whatever value.
C15_NoBeforeSkipsDiff ==
  (pc = "done" /\ NoBeforeSchema) =>
    /\ ~Called("diff")
    /\ Get(result).changes = <<>>
    /\ buildAfter.status = "resolved" => Get(result).errors = composition.errors

\* C15 witness: no before schema, an after schema buildSchema would reject,
\* one composition error
C15_Witness ==
  /\ pc = "done"
  /\ NoBeforeSchema
  /\ buildAfter.status = "resolved"
  /\ buildAfter.value = Some([of |-> "after", usable |-> FALSE])
  /\ Get(result).errors = <<e1>>

Ops == [i \in 1..Len(calls) |-> calls[i].op]

RunOrder == <<"validate", "build", "build", "diff">>

\* C16: the collaborator calls of a run are, in this order and each at most
\* once, Orchestrator.validate, the before build, the after build and
\* Inspector.diff; the builds are issued after Orchestrator.validate has
\* completed, the diff after both builds have resolved and the before build
\* returned a schema, and breaking-change errors are appended only after the
\* diff has returned.
C16_StrictOrder ==
  /\ Len(calls) <= Len(RunOrder)
  /\ Ops = SubSeq(RunOrder, 1, Len(calls))
  /\ Len(calls) >= 3 => calls[2].args[1] = before /\ calls[3].args[1] = after
  /\ Called("build") => pc \notin {"start", "await_validate"}
  /\ Called("diff") => AllResolved /\ IsSome(buildBefore.value)
  /\ (\E i \in 1..Len(errors) : Head(errors[i].message) = "Breaking Change: ") =>
       diffTask.status = "resolved"

\* C16 witness: a run that went through all four calls and rejected a
\* breaking change
C16_Witness ==
  /\ pc = "done"
  /\ Len(calls) = 4
  /\ HasError(Get(result), <<"Breaking Change: ">> \o cB2.message)

\* C18: the external-composition argument of both Orchestrator.build calls
\* equals the argument Orchestrator.validate got in the same run.
C18_SameConfigEverywhere ==
  \A i, j \in 1..Len(calls) :
    (calls[i].op = "validate" /\ calls[j].op = "build") =>
      calls[j].args[2] = calls[i].args[2]

\* C17: the run leaves what it was given unchanged: the list
\* Orchestrator.validate returned still holds exactly the composition
\* errors (no breaking-change or diff-failure error is appended to the
\* collaborator's own list), so a second invocation handed the same list
\* starts from the composition errors alone.
C17_ReturnedListUntouched ==
  IsSome(orchestratorErrors) => Get(orchestratorErrors) = composition.errors

CallCount(op) == Cardinality({i \in 1..Len(calls) : calls[i].op = op})

\* C19: provided every collaborator call issued eventually completes, every
\* run eventually finishes by returning a result or propagating a fault,
\* and it issues at most one validate call, two build calls and one diff
\* call.
C19_Terminates ==
  /\ <>Finished
  /\ [](CallCount("validate") <= 1 /\ CallCount("build") <= 2 /\ CallCount("diff") <= 1)

\* C19 witness: a finished run that issued all four calls
C19_Witness ==
  /\ Finished
  /\ CallCount("validate") = 1
  /\ CallCount("build") = 2
  /\ CallCount("diff") = 1

====
